---------------------------- MODULE Spec2Model ----------------------------
(***************************************************************************)
(* Encrypted semantic memory store of project-harmony:                     *)
(*   - key lifecycle          (getPersistentKey, services/securityUtils)   *)
(*   - AES-GCM blob pipeline  (encryptData / decryptData)                  *)
(*   - PII redaction          (redactPII)                                  *)
(*   - vector store           (VectorDbService: addDocument/search/clear)  *)
(*   - the chat turn that drives them (ChatInterface.handleSend)           *)
(*                                                                         *)
(* Strings are sequences of UTF-16 code units (integers), byte arrays are  *)
(* sequences over 0..255, base64 text is a sequence of base64 symbols.     *)
(***************************************************************************)
EXTENDS Integers, Sequences, FiniteSets, TLC

(***************************************************************************)
(* Bounds of the model.                                                    *)
(***************************************************************************)
NumKeys == 2        \* distinct values generateKey may return
NumNonces == 1      \* distinct values getRandomValues may return
MaxPlainLen == 2    \* longest plaintext of the cipher specification
NumIds == 3         \* distinct values crypto.randomUUID may return
MaxTurns == 1       \* handleSend calls
MaxPrior == 2       \* documents an earlier session left in the vector store
MaxClears == 1      \* handleClearMemory calls
MaxAddCalls == 1    \* direct vectorDb.addDocument calls
MaxLimit == 2       \* largest limit of a direct vectorDb.search call
MaxStored == 3      \* documents in the store of the ranking specification
MaxPieces == 3      \* pieces an input of the redaction specification is made of

(***************************************************************************)
(* Program constants.                                                      *)
(***************************************************************************)
NonceLen == 12      \* new Uint8Array(12)
TagLen == 16        \* AES-GCM default tagLength of 128 bits

Keys == 1..NumKeys
NoKey == 0          \* store.get(KEY_ID) found nothing (request.result undefined)

(***************************************************************************)
(* Generic helpers.                                                        *)
(***************************************************************************)
RECURSIVE SumSeq(_)
SumSeq(s) == IF s = << >> THEN 0 ELSE Head(s) + SumSeq(Tail(s))

RECURSIVE WeightedSum(_, _, _)
WeightedSum(s, w, i) ==
  IF i > Len(s) THEN 0 ELSE ((i + w) * s[i]) + WeightedSum(s, w, i + 1)

Min(a, b) == IF a < b THEN a ELSE b

Ok(v) == [ok |-> TRUE, val |-> v]
Err(e) == [ok |-> FALSE, err |-> e]

(***************************************************************************)
(* TextEncoder.encode: UTF-16 code units -> UTF-8 bytes.  An unpaired      *)
(* surrogate is encoded as U+FFFD (the string is converted to a USVString).*)
(***************************************************************************)
IsHighSurrogate(u) == u >= 55296 /\ u <= 56319     \* D800..DBFF
IsLowSurrogate(u) == u >= 56320 /\ u <= 57343      \* DC00..DFFF

Utf8OfCodePoint(cp) ==
  IF cp < 128 THEN << cp >>
  ELSE IF cp < 2048 THEN << 192 + (cp \div 64), 128 + (cp % 64) >>
  ELSE IF cp < 65536
    THEN << 224 + (cp \div 4096), 128 + ((cp \div 64) % 64), 128 + (cp % 64) >>
  ELSE << 240 + (cp \div 262144), 128 + ((cp \div 4096) % 64),
          128 + ((cp \div 64) % 64), 128 + (cp % 64) >>

RECURSIVE TextEncode(_)
TextEncode(s) ==
  IF s = << >> THEN << >>
  ELSE IF IsHighSurrogate(s[1]) /\ Len(s) >= 2 /\ IsLowSurrogate(s[2])
    THEN Utf8OfCodePoint(65536 + (s[1] - 55296) * 1024 + (s[2] - 56320))
         \o TextEncode(SubSeq(s, 3, Len(s)))
  ELSE IF IsHighSurrogate(s[1]) \/ IsLowSurrogate(s[1])
    THEN Utf8OfCodePoint(65533) \o TextEncode(Tail(s))
  ELSE Utf8OfCodePoint(s[1]) \o TextEncode(Tail(s))

(***************************************************************************)
(* TextDecoder.decode (non-fatal): UTF-8 bytes -> UTF-16 code units; every *)
(* ill-formed subsequence decodes to U+FFFD.                               *)
(***************************************************************************)
IsCont(b) == b >= 128 /\ b <= 191

Utf16OfCodePoint(cp) ==
  IF cp < 65536 THEN << cp >>
  ELSE << 55296 + ((cp - 65536) \div 1024), 56320 + ((cp - 65536) % 1024) >>

\* Number of continuation bytes a lead byte asks for (0 - 3), or -1
Utf8Needed(b) ==
  IF b < 128 THEN 0
  ELSE IF b >= 194 /\ b <= 223 THEN 1
  ELSE IF b >= 224 /\ b <= 239 THEN 2
  ELSE IF b >= 240 /\ b <= 244 THEN 3
  ELSE -1

\* The range allowed for the first continuation byte after lead byte b
FirstContOk(b, c) ==
  IF b = 224 THEN c >= 160 /\ c <= 191
  ELSE IF b = 237 THEN c >= 128 /\ c <= 159
  ELSE IF b = 240 THEN c >= 144 /\ c <= 191
  ELSE IF b = 244 THEN c >= 128 /\ c <= 143
  ELSE IsCont(c)

\* How many of the continuation bytes after position i are well formed
RECURSIVE ContRun(_, _, _, _)
ContRun(bytes, i, k, need) ==
  IF k > need \/ i + k > Len(bytes) THEN k - 1
  ELSE IF (IF k = 1 THEN FirstContOk(bytes[i], bytes[i + 1])
                    ELSE IsCont(bytes[i + k]))
    THEN ContRun(bytes, i, k + 1, need)
  ELSE k - 1

Utf8Value(bytes, i, need) ==
  IF need = 0 THEN bytes[i]
  ELSE IF need = 1 THEN (bytes[i] - 192) * 64 + (bytes[i + 1] - 128)
  ELSE IF need = 2
    THEN (bytes[i] - 224) * 4096 + (bytes[i + 1] - 128) * 64 + (bytes[i + 2] - 128)
  ELSE (bytes[i] - 240) * 262144 + (bytes[i + 1] - 128) * 4096
       + (bytes[i + 2] - 128) * 64 + (bytes[i + 3] - 128)

RECURSIVE TextDecodeFrom(_, _)
TextDecodeFrom(bytes, i) ==
  IF i > Len(bytes) THEN << >>
  ELSE LET need == Utf8Needed(bytes[i])
           got == IF need < 0 THEN 0 ELSE ContRun(bytes, i, 1, need)
       IN IF need >= 0 /\ got = need
            THEN Utf16OfCodePoint(Utf8Value(bytes, i, need))
                 \o TextDecodeFrom(bytes, i + need + 1)
            ELSE << 65533 >> \o TextDecodeFrom(bytes, i + got + 1)

TextDecode(bytes) == TextDecodeFrom(bytes, 1)


(***************************************************************************)
(* btoa(String.fromCharCode(...bytes)) and atob.  A base64 symbol is       *)
(* 0..63 (an alphabet character), PadSym ('=') or BadSym (any character    *)
(* outside the alphabet).  atob is the forgiving-base64 decode: it throws  *)
(* InvalidCharacterError on a bad character or a bad length.               *)
(***************************************************************************)
PadSym == 64
BadSym == 65

RECURSIVE Btoa(_)
Btoa(b) ==
  IF b = << >> THEN << >>
  ELSE IF Len(b) = 1
    THEN << b[1] \div 4, (b[1] % 4) * 16, PadSym, PadSym >>
  ELSE IF Len(b) = 2
    THEN << b[1] \div 4, (b[1] % 4) * 16 + (b[2] \div 16), (b[2] % 16) * 4, PadSym >>
  ELSE << b[1] \div 4, (b[1] % 4) * 16 + (b[2] \div 16),
          (b[2] % 16) * 4 + (b[3] \div 64), b[3] % 64 >>
       \o Btoa(SubSeq(b, 4, Len(b)))

StripPadding(s) ==
  IF Len(s) % 4 = 0 /\ Len(s) >= 2 /\ s[Len(s)] = PadSym /\ s[Len(s) - 1] = PadSym
    THEN SubSeq(s, 1, Len(s) - 2)
  ELSE IF Len(s) % 4 = 0 /\ Len(s) >= 1 /\ s[Len(s)] = PadSym
    THEN SubSeq(s, 1, Len(s) - 1)
  ELSE s

RECURSIVE SextetsToBytes(_)
SextetsToBytes(s) ==
  IF Len(s) < 2 THEN << >>
  ELSE IF Len(s) = 2 THEN << s[1] * 4 + (s[2] \div 16) >>
  ELSE IF Len(s) = 3
    THEN << s[1] * 4 + (s[2] \div 16), (s[2] % 16) * 16 + (s[3] \div 4) >>
  ELSE << s[1] * 4 + (s[2] \div 16), (s[2] % 16) * 16 + (s[3] \div 4),
          (s[3] % 4) * 64 + s[4] >>
       \o SextetsToBytes(SubSeq(s, 5, Len(s)))

Atob(s) ==
  LET t == StripPadding(s)
  IN IF Len(t) % 4 = 1 \/ (\E i \in 1..Len(t) : t[i] > 63)
       THEN Err("InvalidCharacterError")
       ELSE Ok(SextetsToBytes(t))

(***************************************************************************)
(* crypto.subtle.encrypt / decrypt with {name: "AES-GCM", iv}.  AES-GCM is *)
(* an external primitive; the model keeps what the callers rely on: the    *)
(* output is |plaintext| ciphertext bytes followed by a TagLen-byte tag,   *)
(* both depend on key, iv and data, and decrypt rejects with               *)
(* OperationError unless the tag verifies under the same key and iv.       *)
(***************************************************************************)
KeyStream(key, iv, i) == (key * 17 + SumSeq(iv) + 31 * i) % 256

GcmTag(key, iv, ct) ==
  [j \in 1..TagLen |->
     (key * 29 + 3 * WeightedSum(iv, j, 1) + 5 * WeightedSum(ct, 2 * j, 1) + 13 * j) % 256]

SubtleEncrypt(key, iv, pt) ==
  LET ct == [i \in 1..Len(pt) |-> (pt[i] + KeyStream(key, iv, i)) % 256]
  IN ct \o GcmTag(key, iv, ct)

SubtleDecrypt(key, iv, data) ==
  IF Len(iv) = 0 \/ Len(data) < TagLen THEN Err("OperationError")
  ELSE LET n == Len(data) - TagLen
           ct == SubSeq(data, 1, n)
           tag == SubSeq(data, n + 1, Len(data))
       IN IF tag = GcmTag(key, iv, ct)
            THEN Ok([i \in 1..n |-> (ct[i] + 256 - KeyStream(key, iv, i)) % 256])
            ELSE Err("OperationError")

\* window.crypto.getRandomValues(new Uint8Array(12)): the n-th possible draw
Nonce(n) == [i \in 1..NonceLen |-> (n * 37 + i * 11) % 256]
Nonces == {Nonce(n) : n \in 1..NumNonces}

(***************************************************************************)
(* encryptData(text, key): iv is the value getRandomValues returned.       *)
(***************************************************************************)
encryptData(text, key, iv) ==
  LET encoded == TextEncode(text)
      encrypted == SubtleEncrypt(key, iv, encoded)
      combined == iv \o encrypted
  IN Btoa(combined)

(***************************************************************************)
(* decryptData(encryptedBase64, key)                                       *)
(***************************************************************************)
NonceSplit == NonceLen    \* bytes.slice(0, 12) / bytes.slice(12)

decryptData(encryptedBase64, key) ==
  LET binary == Atob(encryptedBase64)
  IN IF ~binary.ok THEN binary
     ELSE LET bytes == binary.val
              iv == SubSeq(bytes, 1, Min(NonceSplit, Len(bytes)))
              data == SubSeq(bytes, NonceSplit + 1, Len(bytes))
              decrypted == SubtleDecrypt(key, iv, data)
          IN IF ~decrypted.ok THEN decrypted
             ELSE Ok(TextDecode(decrypted.val))

(***************************************************************************)
(* redactPII(text): String.prototype.replace with two global regular       *)
(* expressions.  A pattern is a sequence of elements [cls, min, max]       *)
(* (a character class repeated min..max times, greedy); matching is the    *)
(* backtracking, leftmost-first matching of the ECMAScript engine.         *)
(***************************************************************************)
IsDigit(u) == u >= 48 /\ u <= 57
IsAlpha(u) == (u >= 65 /\ u <= 90) \/ (u >= 97 /\ u <= 122)
\* \s of ECMAScript (WhiteSpace and LineTerminator)
IsSpace(u) ==
  u \in {9, 10, 11, 12, 13, 32, 160, 5760, 8232, 8233, 8239, 8287, 12288, 65279}
  \/ (u >= 8192 /\ u <= 8202)

InClass(cls, u) ==
  CASE cls = "local" -> IsAlpha(u) \/ IsDigit(u) \/ u \in {46, 95, 37, 43, 45}  \* [a-zA-Z0-9._%+-]
    [] cls = "domain" -> IsAlpha(u) \/ IsDigit(u) \/ u \in {46, 45}             \* [a-zA-Z0-9.-]
    [] cls = "alpha" -> IsAlpha(u)                                              \* [a-zA-Z]
    [] cls = "digit" -> IsDigit(u)                                              \* \d
    [] cls = "space" -> IsSpace(u)                                              \* \s
    [] cls = "sep" -> IsSpace(u) \/ u \in {46, 45}                              \* [\s.-]
    [] cls = "at" -> u = 64
    [] cls = "dot" -> u = 46
    [] cls = "plus" -> u = 43
    [] cls = "lparen" -> u = 40
    [] cls = "rparen" -> u = 41

El(cls, min, max) == [cls |-> cls, min |-> min, max |-> max]
Unbounded == 1000000

\* /[a-zA-Z0-9._%+-]+@[a-zA-Z0-9.-]+\.[a-zA-Z]{2,}/g
EmailPattern ==
  << El("local", 1, Unbounded), El("at", 1, 1), El("domain", 1, Unbounded),
     El("dot", 1, 1), El("alpha", 2, Unbounded) >>

\* \(?\d{3}\)?[\s.-]?\d{3}[\s.-]?\d{4}
PhoneBody ==
  << El("lparen", 0, 1), El("digit", 3, 3), El("rparen", 0, 1), El("sep", 0, 1),
     El("digit", 3, 3), El("sep", 0, 1), El("digit", 4, 4) >>

\* (\+\d{1,2}\s?)? taken
PhonePrefix == << El("plus", 1, 1), El("digit", 1, 2), El("space", 0, 1) >>

\* /(\+\d{1,2}\s?)?\(?\d{3}\)?[\s.-]?\d{3}[\s.-]?\d{4}/g: the optional group is
\* tried first, then skipped
PhoneAlternatives == << PhonePrefix \o PhoneBody, PhoneBody >>
EmailAlternatives == << EmailPattern >>

\* (a replacement text that itself holds an address: "[a@a.aa]")
EmailTokenWithAddress == << 91, 97, 64, 97, 46, 97, 97, 93 >>

\* "[EMAIL_REDACTED]" and "[PHONE_REDACTED]"
EmailToken == << 91, 69, 77, 65, 73, 76, 95, 82, 69, 68, 65, 67, 84, 69, 68, 93 >>
PhoneToken == << 91, 80, 72, 79, 78, 69, 95, 82, 69, 68, 65, 67, 84, 69, 68, 93 >>

\* how many characters from position pos on are in class cls, at most max
RECURSIVE RunLen(_, _, _, _)
RunLen(s, pos, cls, max) ==
  IF max = 0 \/ pos > Len(s) \/ ~InClass(cls, s[pos]) THEN 0
  ELSE 1 + RunLen(s, pos + 1, cls, max - 1)

\* MatchFrom: the position after the match of elements k.. of pat at pos, or 0.
\* TryCount: element k taking n characters, then n - 1, ... down to its min.
RECURSIVE MatchFrom(_, _, _, _)
RECURSIVE TryCount(_, _, _, _, _)
TryCount(s, pos, pat, k, n) ==
  IF n < pat[k].min THEN 0
  ELSE LET r == MatchFrom(s, pos + n, pat, k + 1)
       IN IF r # 0 THEN r ELSE TryCount(s, pos, pat, k, n - 1)

MatchFrom(s, pos, pat, k) ==
  IF k > Len(pat) THEN pos
  ELSE TryCount(s, pos, pat, k, RunLen(s, pos, pat[k].cls, pat[k].max))

\* the first alternative (in order) that matches at pos: position after it, or 0
RECURSIVE MatchAny(_, _, _, _)
MatchAny(s, pos, alts, a) ==
  IF a > Len(alts) THEN 0
  ELSE LET r == MatchFrom(s, pos, alts[a], 1)
       IN IF r # 0 THEN r ELSE MatchAny(s, pos, alts, a + 1)

\* text.replace(/.../g, token)
RECURSIVE ReplaceAllFrom(_, _, _, _)
ReplaceAllFrom(s, i, alts, token) ==
  IF i > Len(s) THEN << >>
  ELSE LET r == MatchAny(s, i, alts, 1)
       IN IF r # 0 THEN token \o ReplaceAllFrom(s, r, alts, token)
          ELSE << s[i] >> \o ReplaceAllFrom(s, i + 1, alts, token)

RedactEmails(text) == ReplaceAllFrom(text, 1, EmailAlternatives, EmailToken)
RedactPhones(text) == ReplaceAllFrom(text, 1, PhoneAlternatives, PhoneToken)

\* (a redaction that replaces email addresses only)
redactPIIEmailsOnly(text) == RedactEmails(text)

redactPII(text) == RedactPhones(RedactEmails(text))

(***************************************************************************)
(* State.                                                                  *)
(***************************************************************************)
VARIABLES
  cText,      \* cipher harness: the plaintext handed to encryptData
  cKey,       \* cipher harness: the key handed to encryptData
  cBlob,      \* cipher harness: the base64 blob at rest
  cDamaged,   \* cipher harness: the blob was altered after encryptData made it
  cDecKey,    \* cipher harness: the key handed to decryptData
  cOut,       \* cipher harness: what decryptData returned or threw
  cPhase      \* cipher harness: "input" | "stored" | "decrypted"

cipherVars == << cText, cKey, cBlob, cDamaged, cDecKey, cOut, cPhase >>

VARIABLES
  keyStore,   \* object store 'keys' of DB 'harmony-security': the value under KEY_ID
  kpc,        \* per getPersistentKey call: where the call stands
  kOut,       \* per call: state of the returned promise
  kRet,       \* per call: the key the promise resolved with
  kRead,      \* per call: request.result of store.get(KEY_ID)
  kNew,       \* per call: newKey returned by generateKey
  kWrote,     \* per call: put(newKey, KEY_ID) was issued
  kFault      \* per call: the backend failure the call met

keyVars == << keyStore, kpc, kOut, kRet, kRead, kNew, kWrote, kFault >>

VARIABLES
  vectors,    \* object store 'vectors' of DB 'harmony-vectors' (keyPath 'id'): the records
  insertLog,  \* history: ids of the stored records in the order their add committed
              \* (sr.logAtScan and sr.clrAtScan keep insertLog and clr as the scan found them)
  clock,      \* Date.now()
  adds,       \* the addDocument calls made so far, one record per call
  turn,       \* the handleSend call in progress (isLoading guards a second one)
  sr,         \* the vectorDb.search call of the turn
  turnsDone,  \* handleSend calls completed
  clr,        \* the promise of the last vectorDb.clear call ("idle" before any)
  clearsDone  \* clear calls made

storeVars == << vectors, insertLog, clock, adds, turn, sr, turnsDone, clr, clearsDone >>

VARIABLES
  rText,      \* redaction harness: the text handed to redactPII
  rOnce,      \* redaction harness: redactPII(rText)
  rTwice,     \* redaction harness: redactPII(rOnce)
  rPhase      \* redaction harness: "input" | "once" | "twice"

redactVars == << rText, rOnce, rTwice, rPhase >>

vars == << cipherVars, keyVars, storeVars, redactVars >>

(***************************************************************************)
(* The cipher harness: encryptData, a blob at rest that may be truncated   *)
(* or corrupted, decryptData.                                              *)
(***************************************************************************)
\* 'a', e-acute, and the two halves of U+1F600 (each half may stand alone)
PlainUnits == {97, 233, 55357, 56832}

RECURSIVE SeqsUpTo(_, _)
SeqsUpTo(S, n) ==
  IF n = 0 THEN {<< >>}
  ELSE LET shorter == SeqsUpTo(S, n - 1)
       IN shorter \cup {Append(t, x) : t \in shorter, x \in S}

PlainTexts == SeqsUpTo(PlainUnits, MaxPlainLen)

NotRun == [ok |-> FALSE, err |-> "not run"]

RedactIdle == rText = << >> /\ rOnce = << >> /\ rTwice = << >> /\ rPhase = "off"

CipherIdle ==
  /\ cText = << >> /\ cKey = NoKey /\ cBlob = << >> /\ cDamaged = FALSE
  /\ cDecKey = NoKey /\ cOut = NotRun /\ cPhase = "off"
  /\ RedactIdle

(***************************************************************************)
(* The vector store and the calls in progress, before anything was called. *)
(***************************************************************************)
NoSearch ==
  [pc |-> "off", query |-> << >>, limit |-> 0, emb |-> "none", queryVector |-> << >>,
   allDocs |-> << >>,
   logAtScan |-> << >>, clrAtScan |-> "none", out |-> "none", err |-> "none", results |-> << >>]

NoTurn == [pc |-> "idle", cleanInput |-> << >>, contextDocs |-> << >>, errorShown |-> FALSE]

StoreIdle ==
  /\ vectors = {}
  /\ insertLog = << >>
  /\ clock = 0
  /\ adds = << >>
  /\ turn = NoTurn
  /\ sr = NoSearch
  /\ turnsDone = 0
  /\ clr = "idle"
  /\ clearsDone = 0

\* The two places that call getPersistentKey when the application loads:
\* the VectorDbService constructor and ChatInterface's initSecurity effect.
Callers == {"vdb", "ui"}

KeyIdle ==
  /\ kpc = [c \in Callers |-> "idle"]
  /\ kOut = [c \in Callers |-> "pending"]
  /\ kRet = [c \in Callers |-> NoKey]
  /\ kRead = [c \in Callers |-> NoKey]
  /\ kNew = [c \in Callers |-> NoKey]
  /\ kWrote = [c \in Callers |-> FALSE]
  /\ kFault = [c \in Callers |-> "none"]

CipherInit ==
  /\ keyStore = NoKey /\ KeyIdle /\ StoreIdle
  /\ cText \in PlainTexts
  /\ cKey \in Keys
  /\ cBlob = << >>
  /\ cDamaged = FALSE
  /\ cDecKey = NoKey
  /\ cOut = NotRun
  /\ cPhase = "input"
  /\ RedactIdle

CipherEncrypt ==
  /\ cPhase = "input"
  /\ \E iv \in Nonces : cBlob' = encryptData(cText, cKey, iv)
  /\ cPhase' = "stored"
  /\ UNCHANGED << cText, cKey, cDamaged, cDecKey, cOut, keyVars, storeVars, redactVars >>

\* the blob is cut to its first n characters
CipherTruncate ==
  /\ cPhase = "stored" /\ ~cDamaged
  /\ \E n \in 0..(Len(cBlob) - 1) : cBlob' = SubSeq(cBlob, 1, n)
  /\ cDamaged' = TRUE
  /\ UNCHANGED << cText, cKey, cDecKey, cOut, cPhase, keyVars, storeVars, redactVars >>

\* one character of the blob is replaced by another base64 character
CipherCorrupt ==
  /\ cPhase = "stored" /\ ~cDamaged
  /\ \E p \in 1..Len(cBlob) :
       cBlob' = [cBlob EXCEPT ![p] = IF @ > 63 THEN 0 ELSE (@ + 1) % 64]
  /\ cDamaged' = TRUE
  /\ UNCHANGED << cText, cKey, cDecKey, cOut, cPhase, keyVars, storeVars, redactVars >>

\* one character of the blob is replaced by a character outside base64
CipherGarble ==
  /\ cPhase = "stored" /\ ~cDamaged
  /\ \E p \in 1..Len(cBlob) : cBlob' = [cBlob EXCEPT ![p] = BadSym]
  /\ cDamaged' = TRUE
  /\ UNCHANGED << cText, cKey, cDecKey, cOut, cPhase, keyVars, storeVars, redactVars >>

CipherDecrypt ==
  /\ cPhase = "stored"
  /\ \E k \in Keys :
       /\ cDecKey' = k
       /\ cOut' = decryptData(cBlob, k)
  /\ cPhase' = "decrypted"
  /\ UNCHANGED << cText, cKey, cBlob, cDamaged, keyVars, storeVars, redactVars >>

CipherNext ==
  \/ CipherEncrypt
  \/ CipherTruncate
  \/ CipherCorrupt
  \/ CipherGarble
  \/ CipherDecrypt

(***************************************************************************)
(* getPersistentKey (with openKeyDB), one step per IndexedDB / WebCrypto   *)
(* callback.                                                               *)
(***************************************************************************)
\* getPersistentKey() is called: openKeyDB issues indexedDB.open
KeyCall(c) ==
  /\ kpc[c] = "idle"
  /\ kpc' = [kpc EXCEPT ![c] = "opening"]
  /\ UNCHANGED << keyStore, kOut, kRet, kRead, kNew, kWrote, kFault, cipherVars, storeVars, redactVars >>

\* open request.onsuccess: the readonly transaction and store.get are issued
KeyOpenSuccess(c) ==
  /\ kpc[c] = "opening"
  /\ kpc' = [kpc EXCEPT ![c] = "reading"]
  /\ UNCHANGED << keyStore, kOut, kRet, kRead, kNew, kWrote, kFault, cipherVars, storeVars, redactVars >>

\* open request.onerror: reject(request.error)
KeyOpenError(c) ==
  /\ kpc[c] = "opening"
  /\ kpc' = [kpc EXCEPT ![c] = "end"]
  /\ kOut' = [kOut EXCEPT ![c] = "rejected"]
  /\ kFault' = [kFault EXCEPT ![c] = "open"]
  /\ UNCHANGED << keyStore, kRet, kRead, kNew, kWrote, cipherVars, storeVars, redactVars >>

\* get request.onsuccess, with request.result the persisted value
KeyReadSuccessMissesResult(c) ==
  /\ kpc[c] = "reading"
  /\ kRead' = [kRead EXCEPT ![c] = keyStore]
  /\ kpc' = [kpc EXCEPT ![c] = "generating"]
  /\ UNCHANGED << keyStore, kOut, kRet, kNew, kWrote, kFault, cipherVars, storeVars, redactVars >>

KeyReadSuccess(c) ==
  /\ kpc[c] = "reading"
  /\ kRead' = [kRead EXCEPT ![c] = keyStore]
  /\ IF keyStore # NoKey
       THEN /\ kOut' = [kOut EXCEPT ![c] = "resolved"]
            /\ kRet' = [kRet EXCEPT ![c] = keyStore]
            /\ kpc' = [kpc EXCEPT ![c] = "end"]
       ELSE /\ kpc' = [kpc EXCEPT ![c] = "generating"]
            /\ UNCHANGED << kOut, kRet >>
  /\ UNCHANGED << keyStore, kNew, kWrote, kFault, cipherVars, storeVars, redactVars >>

\* get request.onerror: reject(request.error)
KeyReadError(c) ==
  /\ kpc[c] = "reading"
  /\ kpc' = [kpc EXCEPT ![c] = "end"]
  /\ kOut' = [kOut EXCEPT ![c] = "rejected"]
  /\ kFault' = [kFault EXCEPT ![c] = "read"]
  /\ UNCHANGED << keyStore, kRet, kRead, kNew, kWrote, cipherVars, storeVars, redactVars >>

\* (a getPersistentKey that resolves with the new key as soon as put is issued)
KeyGeneratedResolvesAtPut(c) ==
  /\ kpc[c] = "generating"
  /\ \E k \in Keys :
       /\ kNew' = [kNew EXCEPT ![c] = k]
       /\ kRet' = [kRet EXCEPT ![c] = k]
  /\ kOut' = [kOut EXCEPT ![c] = "resolved"]
  /\ kWrote' = [kWrote EXCEPT ![c] = TRUE]
  /\ kpc' = [kpc EXCEPT ![c] = "writing"]
  /\ UNCHANGED << keyStore, kRead, kFault, cipherVars, storeVars, redactVars >>

\* generateKey resolves with a fresh random key; the readwrite transaction is
\* opened and put(newKey, KEY_ID) is issued
KeyGenerated(c) ==
  /\ kpc[c] = "generating"
  /\ \E k \in Keys : kNew' = [kNew EXCEPT ![c] = k]
  /\ kWrote' = [kWrote EXCEPT ![c] = TRUE]
  /\ kpc' = [kpc EXCEPT ![c] = "writing"]
  /\ UNCHANGED << keyStore, kOut, kRet, kRead, kFault, cipherVars, storeVars, redactVars >>

\* generateKey rejects inside the async onsuccess handler: nothing catches it
\* and neither resolve nor reject of the returned promise is ever called
KeyGenerateError(c) ==
  /\ kpc[c] = "generating"
  /\ kpc' = [kpc EXCEPT ![c] = "end"]
  /\ kFault' = [kFault EXCEPT ![c] = "generate"]
  /\ UNCHANGED << keyStore, kOut, kRet, kRead, kNew, kWrote, cipherVars, storeVars, redactVars >>

\* the readwrite transaction commits (put overwrites whatever is stored),
\* writeTx.oncomplete: resolve(newKey)
KeyWriteComplete(c) ==
  /\ kpc[c] = "writing"
  /\ keyStore' = kNew[c]
  /\ kOut' = [kOut EXCEPT ![c] = "resolved"]
  /\ kRet' = [kRet EXCEPT ![c] = kNew[c]]
  /\ kpc' = [kpc EXCEPT ![c] = "end"]
  /\ UNCHANGED << kRead, kNew, kWrote, kFault, cipherVars, storeVars, redactVars >>

\* the readwrite transaction fails or aborts: writeTx has no onerror and no
\* onabort handler, so the returned promise is never settled
KeyWriteAbort(c) ==
  /\ kpc[c] = "writing"
  /\ kpc' = [kpc EXCEPT ![c] = "end"]
  /\ kFault' = [kFault EXCEPT ![c] = "write"]
  /\ UNCHANGED << keyStore, kOut, kRet, kRead, kNew, kWrote, cipherVars, storeVars, redactVars >>

KeyNext ==
  \E c \in Callers :
    \/ KeyCall(c)
    \/ KeyOpenSuccess(c)
    \/ KeyOpenError(c)
    \/ KeyReadSuccess(c)
    \/ KeyReadError(c)
    \/ KeyGenerated(c)
    \/ KeyGenerateError(c)
    \/ KeyWriteComplete(c)
    \/ KeyWriteAbort(c)

\* the key database as an earlier session may have left it
KeyInit ==
  /\ keyStore \in Keys \cup {NoKey}
  /\ KeyIdle
  /\ CipherIdle
  /\ StoreIdle

SpecKey == KeyInit /\ [][KeyNext]_vars

(***************************************************************************)
(* The collaborators of the vector store.                                  *)
(***************************************************************************)
\* what the user may type: "hi", "a@b.co"
UserInputs == { << 104, 105 >>, << 97, 64, 98, 46, 99, 111 >> }
\* what streamChat may answer: "ok", "x@y.io"
ModelReplies == { << 111, 107 >>, << 120, 64, 121, 46, 105, 111 >> }

\* ai.models.embedContent: the provider's vector for a text.  The one-letter
\* texts "a", "b", "c", "d", "h" get vectors that lie at chosen angles: "c" is
\* parallel to "a", "b" is at cosine 13/20 to "a", "d" has zero magnitude and
\* "h" gets an empty values array.  Any other text gets the numbers of its
\* letters and of its other characters.
EmbeddingOf(text) ==
  CASE text = << 97 >> -> << 1, 0, 0, 0, 0 >>
    [] text = << 98 >> -> << 13, 15, 2, 1, 1 >>
    [] text = << 99 >> -> << 2, 0, 0, 0, 0 >>
    [] text = << 100 >> -> << 0, 0, 0, 0, 0 >>
    [] text = << 104 >> -> << >>
    [] OTHER -> << Cardinality({i \in DOMAIN text : IsAlpha(text[i])}),
                   Cardinality({i \in DOMAIN text : ~IsAlpha(text[i])}) >>

\* crypto.randomUUID(): the values it may return
Ids == 1..NumIds

\* await this.keyPromise
VdbKey == kRet["vdb"]

NoDoc == [id |-> 0]

StoredIds == {d.id : d \in vectors}

(***************************************************************************)
(* VectorDbService.addDocument(text, 'chat').  The call record keeps the   *)
(* two promises of Promise.all (emb, enc), the promise addDocument         *)
(* returned (out, err) and the document handed to the transaction.         *)
(***************************************************************************)
\* the call, once dbPromise and keyPromise are resolved: getEmbedding(text)
\* and encryptData(text, key) are both started
\* (an addDocument that awaits the embedding before it starts the encryption)
addDocumentSequential(text) ==
  [text |-> text, pc |-> "parallel", emb |-> "pending", enc |-> "notstarted",
   vector |-> << >>, content |-> << >>, doc |-> NoDoc,
   out |-> "pending", err |-> "none", beforeClear |-> FALSE, txBeforeClear |-> FALSE]

\* beforeClear: history, whether clear() was called while the call was under way
\* or after it; txBeforeClear: whether the transaction of the call was created
\* before the transaction of that clear()
addDocument(text) ==
  [text |-> text, pc |-> "parallel", emb |-> "pending", enc |-> "pending",
   vector |-> << >>, content |-> << >>, doc |-> NoDoc,
   out |-> "pending", err |-> "none", beforeClear |-> FALSE, txBeforeClear |-> FALSE]

\* both promises fulfilled: the document is assembled and
\* tx.objectStore(STORE_NAME).add(doc) is issued
AssembleDoc(a, id, now) ==
  [a EXCEPT !.pc = "tx", !.vector = << >>, !.content = << >>,
            !.doc = [id |-> id, content |-> a.content, vector |-> a.vector,
                     timestamp |-> now, type |-> "chat"]]

\* Promise.all rejects with the first rejection; a later one changes nothing
RejectAll(a, e) ==
  IF a.out = "pending" THEN [a EXCEPT !.out = "rejected", !.err = e, !.pc = "done"]
  ELSE a

Settle(i, a) ==
  IF a.emb = "ok" /\ a.enc = "ok"
    THEN \E id \in Ids : adds' = [adds EXCEPT ![i] = AssembleDoc(a, id, clock)]
    ELSE adds' = [adds EXCEPT ![i] = a]

\* getEmbedding resolves
AddEmbedOk(i) ==
  /\ adds[i].emb = "pending"
  /\ Settle(i, [adds[i] EXCEPT !.emb = "ok", !.vector = EmbeddingOf(adds[i].text)])
  /\ UNCHANGED << vectors, insertLog, clock, turn, sr, turnsDone, clr, clearsDone, keyVars, cipherVars, redactVars >>

\* (an addDocument that stores the document without its vector when the
\* embedding failed)
AddEmbedFailStillStores(i) ==
  /\ adds[i].emb = "pending"
  /\ LET a == [adds[i] EXCEPT !.emb = "fail"]
     IN IF a.enc = "ok"
          THEN \E id \in Ids : adds' = [adds EXCEPT ![i] = AssembleDoc(a, id, clock)]
          ELSE adds' = [adds EXCEPT ![i] = a]
  /\ UNCHANGED << vectors, insertLog, clock, turn, sr, turnsDone, clr, clearsDone, keyVars, cipherVars, redactVars >>

\* getEmbedding rethrows the provider's error
AddEmbedFail(i) ==
  /\ adds[i].emb = "pending"
  /\ adds' = [adds EXCEPT ![i] = RejectAll([adds[i] EXCEPT !.emb = "fail"], "ProviderError")]
  /\ UNCHANGED << vectors, insertLog, clock, turn, sr, turnsDone, clr, clearsDone, keyVars, cipherVars, redactVars >>

\* encryptData resolves
AddEncryptOk(i) ==
  /\ adds[i].enc = "pending"
  /\ \E iv \in Nonces :
       Settle(i, [adds[i] EXCEPT !.enc = "ok",
                                 !.content = encryptData(adds[i].text, VdbKey, iv)])
  /\ UNCHANGED << vectors, insertLog, clock, turn, sr, turnsDone, clr, clearsDone, keyVars, cipherVars, redactVars >>

\* encryptData rejects (subtle.encrypt rejects, or the argument spread of
\* String.fromCharCode throws on a text too long for the engine)
AddEncryptFail(i) ==
  /\ adds[i].enc = "pending"
  /\ adds' = [adds EXCEPT ![i] = RejectAll([adds[i] EXCEPT !.enc = "fail"], "EncryptError")]
  /\ UNCHANGED << vectors, insertLog, clock, turn, sr, turnsDone, clr, clearsDone, keyVars, cipherVars, redactVars >>

\* readwrite transactions on the store run one at a time, in the order of their
\* creation: the transaction of call i runs once no clear transaction created
\* before it is under way, and the transaction of clear() once no add
\* transaction created before it is under way
AddTxMayRun(i) == clr = "tx" => adds[i].txBeforeClear
ClearTxMayRun == \A i \in DOMAIN adds : adds[i].pc = "tx" => ~adds[i].txBeforeClear

\* (an add that commits the record before its vector is written)
AddTxCompleteInParts(i) ==
  /\ adds[i].pc = "tx"
  /\ AddTxMayRun(i)
  /\ adds[i].doc.id \notin StoredIds
  /\ vectors' = vectors \cup {[adds[i].doc EXCEPT !.vector = << >>]}
  /\ insertLog' = Append(insertLog, adds[i].doc.id)
  /\ adds' = [adds EXCEPT ![i].pc = "done", ![i].out = "resolved",
                           ![i].doc = [id |-> adds[i].doc.id]]
  /\ UNCHANGED << clock, turn, sr, turnsDone, clr, clearsDone, keyVars, cipherVars, redactVars >>

\* (an add issued as put(doc): it replaces the record stored under the id)
AddTxPut(i) ==
  /\ adds[i].pc = "tx"
  /\ AddTxMayRun(i)
  /\ vectors' = {d \in vectors : d.id # adds[i].doc.id} \cup {adds[i].doc}
  /\ insertLog' = Append(SelectSeq(insertLog, LAMBDA id : id # adds[i].doc.id), adds[i].doc.id)
  /\ adds' = [adds EXCEPT ![i].pc = "done", ![i].out = "resolved",
                           ![i].doc = [id |-> adds[i].doc.id]]
  /\ UNCHANGED << clock, turn, sr, turnsDone, clr, clearsDone, keyVars, cipherVars, redactVars >>

\* (an add into a store that has no key path: nothing keeps ids apart)
AddTxCompleteUnkeyed(i) ==
  /\ adds[i].pc = "tx"
  /\ AddTxMayRun(i)
  /\ vectors' = vectors \cup {adds[i].doc}
  /\ insertLog' = Append(insertLog, adds[i].doc.id)
  /\ adds' = [adds EXCEPT ![i].pc = "done", ![i].out = "resolved",
                           ![i].doc = [id |-> adds[i].doc.id]]
  /\ UNCHANGED << clock, turn, sr, turnsDone, clr, clearsDone, keyVars, cipherVars, redactVars >>

\* the readwrite transaction commits: tx.oncomplete, resolve()
AddTxComplete(i) ==
  /\ adds[i].pc = "tx"
  /\ AddTxMayRun(i)
  /\ adds[i].doc.id \notin StoredIds
  /\ vectors' = vectors \cup {adds[i].doc}
  /\ insertLog' = Append(insertLog, adds[i].doc.id)
  /\ adds' = [adds EXCEPT ![i].pc = "done", ![i].out = "resolved",
                           ![i].doc = [id |-> adds[i].doc.id]]
  /\ UNCHANGED << clock, turn, sr, turnsDone, clr, clearsDone, keyVars, cipherVars, redactVars >>

\* add(doc) finds the key of doc already in the store: the request fails with
\* ConstraintError and the transaction aborts; tx.onerror, reject(tx.error)
AddTxConstraintError(i) ==
  /\ adds[i].pc = "tx"
  /\ AddTxMayRun(i)
  /\ adds[i].doc.id \in StoredIds
  /\ adds' = [adds EXCEPT ![i].pc = "done", ![i].out = "rejected",
                           ![i].err = "ConstraintError", ![i].doc = [id |-> adds[i].doc.id]]
  /\ UNCHANGED << vectors, insertLog, clock, turn, sr, turnsDone, clr, clearsDone, keyVars, cipherVars, redactVars >>

\* the transaction fails in the backend: tx.onerror, reject(tx.error)
AddTxError(i) ==
  /\ adds[i].pc = "tx"
  /\ AddTxMayRun(i)
  /\ adds' = [adds EXCEPT ![i].pc = "done", ![i].out = "rejected", ![i].err = "StoreError",
                           ![i].doc = [id |-> adds[i].doc.id]]
  /\ UNCHANGED << vectors, insertLog, clock, turn, sr, turnsDone, clr, clearsDone, keyVars, cipherVars, redactVars >>

\* the transaction aborts without a failed request (the commit fails, as when
\* the quota is exceeded): only the abort event fires, tx has no onabort
\* handler, and the returned promise is never settled
AddTxAbort(i) ==
  /\ adds[i].pc = "tx"
  /\ AddTxMayRun(i)
  /\ adds' = [adds EXCEPT ![i].pc = "aborted", ![i].doc = [id |-> adds[i].doc.id]]
  /\ UNCHANGED << vectors, insertLog, clock, turn, sr, turnsDone, clr, clearsDone, keyVars, cipherVars, redactVars >>

(***************************************************************************)
(* Math utilities.  A score dot/(|a| |b|) is kept exactly, as the pair     *)
(* [dot, mm] with mm = |a|^2 |b|^2, and compared without rounding.         *)
(***************************************************************************)
RECURSIVE DotFrom(_, _, _)
DotFrom(a, b, i) == IF i > Len(a) THEN 0 ELSE a[i] * b[i] + DotFrom(a, b, i + 1)

dotProduct(a, b) == DotFrom(a, b, 1)

\* magnitude(a) squared
Magnitude2(a) == DotFrom(a, a, 1)

\* (a cosine without the zero-magnitude guard: 0/0 where a magnitude is 0)
cosineSimilarityUnguarded(a, b) ==
  [dot |-> IF Len(a) = Len(b) THEN dotProduct(a, b) ELSE 0,
   mm |-> Magnitude2(a) * Magnitude2(b)]

cosineSimilarity(a, b) ==
  IF Magnitude2(a) = 0 \/ Magnitude2(b) = 0 THEN [dot |-> 0, mm |-> 1]
  ELSE [dot |-> dotProduct(a, b), mm |-> Magnitude2(a) * Magnitude2(b)]

\* s < t as numbers
ScoreLess(s, t) ==
  IF s.dot < 0 /\ t.dot >= 0 THEN TRUE
  ELSE IF s.dot >= 0 /\ t.dot < 0 THEN FALSE
  ELSE IF s.dot >= 0 THEN s.dot * s.dot * t.mm < t.dot * t.dot * s.mm
  ELSE s.dot * s.dot * t.mm > t.dot * t.dot * s.mm

\* doc.score > 0.65, the filter of handleSend (0.65 = 13/20)
MinScoreNum == 13
MinScoreDen == 20
AboveMinScore(sc) ==
  sc.dot > 0 /\ MinScoreDen * MinScoreDen * sc.dot * sc.dot > MinScoreNum * MinScoreNum * sc.mm

\* vectorDb.search(cleanInput, 3)
SearchLimit == 3

\* "[Encrypted Memory]"
EncryptedMemory ==
  << 91, 69, 110, 99, 114, 121, 112, 116, 101, 100, 32, 77, 101, 109, 111, 114, 121, 93 >>

(***************************************************************************)
(* VectorDbService.search(query, limit)                                    *)
(***************************************************************************)
\* (a scan that returns the records in descending order of their key)
RECURSIVE GetAllDescending(_)
GetAllDescending(store) ==
  IF store = {} THEN << >>
  ELSE LET first == CHOOSE d \in store : \A e \in store : d.id >= e.id
       IN << first >> \o GetAllDescending(store \ {first})

\* objectStore.getAll(): the records in ascending order of their key, the id
RECURSIVE GetAll(_)
GetAll(store) ==
  IF store = {} THEN << >>
  ELSE LET first == CHOOSE d \in store : \A e \in store : d.id <= e.id
       IN << first >> \o GetAll(store \ {first})

\* scoredDocs.sort((a, b) => b.score - a.score): stable, descending
InsertByScore(sorted, x) ==
  LET before == {p \in 1..Len(sorted) : ScoreLess(sorted[p].score, x.score)}
      at == IF before = {} THEN Len(sorted) + 1
            ELSE CHOOSE p \in before : \A q \in before : p <= q
  IN SubSeq(sorted, 1, at - 1) \o << x >> \o SubSeq(sorted, at, Len(sorted))

\* (a ranking that leaves the documents in the order of the scan)
SortByScoreKeepsScanOrder(docs) == docs

RECURSIVE SortByScore(_)
SortByScore(docs) ==
  IF docs = << >> THEN << >>
  ELSE InsertByScore(SortByScore(SubSeq(docs, 1, Len(docs) - 1)), docs[Len(docs)])

\* (a decryption whose failure is not replaced by the placeholder)
DecryptEntryShowsError(doc, key) ==
  LET text == decryptData(doc.content, key)
  IN [text |-> IF text.ok THEN text.val ELSE << >>,
      timestamp |-> doc.timestamp, score |-> doc.score]

\* one entry of the result: the decrypted text, or the placeholder
DecryptEntry(doc, key) ==
  LET text == decryptData(doc.content, key)
  IN [text |-> IF text.ok THEN text.val ELSE EncryptedMemory,
      timestamp |-> doc.timestamp, score |-> doc.score]

\* lines 468-503: what search returns for the scanned documents
SearchResults(allDocs, queryVector, limit, key) ==
  LET scoredDocs == [i \in 1..Len(allDocs) |->
                       [id |-> allDocs[i].id, content |-> allDocs[i].content,
                        vector |-> allDocs[i].vector, timestamp |-> allDocs[i].timestamp,
                        type |-> allDocs[i].type,
                        score |-> cosineSimilarity(queryVector, allDocs[i].vector)]]
      sorted == SortByScore(scoredDocs)
      topDocs == SubSeq(sorted, 1, Min(limit, Len(sorted)))
  IN [i \in 1..Len(topDocs) |-> DecryptEntry(topDocs[i], key)]

\* contextDocs.filter(doc => doc.score > 0.65)
RECURSIVE FilterByScore(_)
FilterByScore(docs) ==
  IF docs = << >> THEN << >>
  ELSE (IF AboveMinScore(Head(docs).score) THEN << Head(docs) >> ELSE << >>)
       \o FilterByScore(Tail(docs))

\* the call, once dbPromise and keyPromise are resolved: getEmbedding(query)
search(query, limit) ==
  [NoSearch EXCEPT !.pc = "embed", !.query = query, !.limit = limit, !.emb = "pending",
                   !.out = "pending"]

\* handleSend lines 98-103: the awaited search settled; its entries are
\* filtered, or its error caught and the turn goes on without context.  A
\* search that handleSend did not call leaves the turn alone.
ResumeTurn(contextDocs) ==
  IF turn.pc = "search" THEN [turn EXCEPT !.pc = "chat", !.contextDocs = contextDocs]
  ELSE turn

\* getEmbedding(query) resolves; the readonly transaction and getAll are issued
SearchEmbedOk ==
  /\ sr.pc = "embed"
  /\ sr' = [sr EXCEPT !.pc = "scan", !.emb = "ok", !.queryVector = EmbeddingOf(sr.query)]
  /\ UNCHANGED << vectors, insertLog, clock, adds, turn, turnsDone, clr, clearsDone,
                  keyVars, cipherVars, redactVars >>

\* (a search that catches the provider's error and returns no memories)
SearchEmbedFailReturnsEmpty ==
  /\ sr.pc = "embed"
  /\ sr' = [sr EXCEPT !.pc = "done", !.emb = "fail", !.out = "resolved"]
  /\ turn' = ResumeTurn(<< >>)
  /\ UNCHANGED << vectors, insertLog, clock, adds, turnsDone, clr, clearsDone,
                  keyVars, cipherVars, redactVars >>

\* getEmbedding(query) rethrows the provider's error: search rejects with it;
\* handleSend catches it and goes on with no context
SearchEmbedFail ==
  /\ sr.pc = "embed"
  /\ sr' = [sr EXCEPT !.pc = "done", !.emb = "fail", !.out = "rejected",
                      !.err = "ProviderError"]
  /\ turn' = ResumeTurn(<< >>)
  /\ UNCHANGED << vectors, insertLog, clock, adds, turnsDone, clr, clearsDone,
                  keyVars, cipherVars, redactVars >>

\* (a search that stamps the records it has read with the time of the read)
SearchScanTouches ==
  /\ sr.pc = "scan"
  /\ LET allDocs == GetAll(vectors)
         results == IF Len(allDocs) = 0 THEN << >>
                    ELSE SearchResults(allDocs, sr.queryVector, sr.limit, VdbKey)
     IN /\ sr' = [sr EXCEPT !.pc = "done", !.out = "resolved", !.allDocs = allDocs,
                            !.logAtScan = insertLog, !.clrAtScan = clr,
                            !.results = results]
        /\ turn' = ResumeTurn(FilterByScore(results))
  /\ vectors' = {[d EXCEPT !.timestamp = clock + 1] : d \in vectors}
  /\ UNCHANGED << insertLog, clock, adds, turnsDone, clr, clearsDone,
                  keyVars, cipherVars, redactVars >>

\* getAll request.onsuccess: ranking, decryption, and handleSend's filter
SearchScan ==
  /\ sr.pc = "scan"
  /\ LET allDocs == GetAll(vectors)
         results == IF Len(allDocs) = 0 THEN << >>
                    ELSE SearchResults(allDocs, sr.queryVector, sr.limit, VdbKey)
     IN /\ sr' = [sr EXCEPT !.pc = "done", !.out = "resolved", !.allDocs = allDocs,
                            !.logAtScan = insertLog, !.clrAtScan = clr,
                            !.results = results]
        /\ turn' = ResumeTurn(FilterByScore(results))
  /\ UNCHANGED << vectors, insertLog, clock, adds, turnsDone, clr, clearsDone,
                  keyVars, cipherVars, redactVars >>

\* getAll request.onerror: search rejects, handleSend goes on with no context
SearchScanError ==
  /\ sr.pc = "scan"
  /\ sr' = [sr EXCEPT !.pc = "done", !.out = "rejected", !.err = "StoreError"]
  /\ turn' = ResumeTurn(<< >>)
  /\ UNCHANGED << vectors, insertLog, clock, adds, turnsDone, clr, clearsDone,
                  keyVars, cipherVars, redactVars >>

(***************************************************************************)
(* ChatInterface.handleSend and handleClearMemory                          *)
(***************************************************************************)
\* lines 85-98: the input is redacted and vectorDb.search(cleanInput, 3) called
HandleSend(input) ==
  /\ turn.pc = "idle"
  /\ turnsDone < MaxTurns
  /\ kOut["vdb"] = "resolved"
  /\ turn' = [pc |-> "search", cleanInput |-> redactPII(input), contextDocs |-> << >>,
               errorShown |-> FALSE]
  /\ sr' = search(redactPII(input), SearchLimit)
  /\ clock' = clock + 1
  /\ UNCHANGED << vectors, insertLog, adds, turnsDone, clr, clearsDone,
                  keyVars, cipherVars, redactVars >>

\* lines 140-151: streamChat returned; both memories are handed to
\* addDocument and the two promises are not awaited
StoreInteraction(cleanInput, fullResponse) ==
  << addDocument(cleanInput), addDocument(fullResponse) >>

ChatOk(fullResponse) ==
  /\ turn.pc = "chat"
  /\ adds' = adds \o StoreInteraction(turn.cleanInput, fullResponse)
  /\ turn' = NoTurn
  /\ sr' = NoSearch
  /\ turnsDone' = turnsDone + 1
  /\ clock' = clock + 1
  /\ UNCHANGED << vectors, insertLog, clr, clearsDone, keyVars, cipherVars, redactVars >>

\* lines 153-160: streamChat threw; nothing is handed to addDocument and the
\* catch block shows the error message
ChatFail ==
  /\ turn.pc = "chat"
  /\ turn' = [NoTurn EXCEPT !.errorShown = TRUE]
  /\ sr' = NoSearch
  /\ turnsDone' = turnsDone + 1
  /\ UNCHANGED << vectors, insertLog, clock, adds, clr, clearsDone, keyVars, cipherVars, redactVars >>

\* handleClearMemory: vectorDb.clear() issues objectStore.clear()
ClearCall ==
  /\ clr # "tx"
  /\ clearsDone < MaxClears
  /\ clr' = "tx"
  /\ clearsDone' = clearsDone + 1
  /\ adds' = [i \in DOMAIN adds |->
                [adds[i] EXCEPT !.beforeClear = TRUE, !.txBeforeClear = (adds[i].pc = "tx")]]
  /\ UNCHANGED << vectors, insertLog, clock, turn, sr, turnsDone, keyVars, cipherVars, redactVars >>

\* (a clear that deletes the records one by one and stops before the last)
ClearCompleteLeavesOne ==
  /\ clr = "tx"
  /\ ClearTxMayRun
  /\ vectors' = IF vectors = {} THEN {}
                ELSE {CHOOSE d \in vectors : \A e \in vectors : e.id <= d.id}
  /\ insertLog' = << >>
  /\ clr' = "resolved"
  /\ UNCHANGED << clock, adds, turn, sr, turnsDone, clearsDone, keyVars, cipherVars, redactVars >>

\* the readwrite transaction of clear commits: tx.oncomplete
ClearComplete ==
  /\ clr = "tx"
  /\ ClearTxMayRun
  /\ vectors' = {}
  /\ insertLog' = << >>
  /\ clr' = "resolved"
  /\ UNCHANGED << clock, adds, turn, sr, turnsDone, clearsDone, keyVars, cipherVars, redactVars >>

\* the clear request fails: tx.onerror, reject(tx.error)
ClearError ==
  /\ clr = "tx"
  /\ ClearTxMayRun
  /\ clr' = "rejected"
  /\ UNCHANGED << vectors, insertLog, clock, adds, turn, sr, turnsDone, clearsDone,
                  keyVars, cipherVars, redactVars >>

StoreNext ==
  \/ \E input \in UserInputs : HandleSend(input)
  \/ SearchEmbedOk
  \/ SearchEmbedFail
  \/ SearchScan
  \/ SearchScanError
  \/ \E fullResponse \in ModelReplies : ChatOk(fullResponse)
  \/ ChatFail
  \/ \E i \in DOMAIN adds : AddEmbedOk(i)
  \/ \E i \in DOMAIN adds : AddEmbedFail(i)
  \/ \E i \in DOMAIN adds : AddEncryptOk(i)
  \/ \E i \in DOMAIN adds : AddEncryptFail(i)
  \/ \E i \in DOMAIN adds : AddTxComplete(i)
  \/ \E i \in DOMAIN adds : AddTxConstraintError(i)
  \/ \E i \in DOMAIN adds : AddTxError(i)
  \/ \E i \in DOMAIN adds : AddTxAbort(i)
  \/ ClearCall
  \/ ClearComplete
  \/ ClearError

\* what an earlier session stored: redacted inputs
PriorTexts == {redactPII(x) : x \in UserInputs}

\* a document an earlier session stored under key k
PriorDoc(id, text, k) ==
  [id |-> id, content |-> encryptData(text, k, Nonce(1)), vector |-> EmbeddingOf(text),
   timestamp |-> 0, type |-> "chat"]

\* the ids of the documents of earlier sessions, in the order they were added
PriorLogs == {log \in SeqsUpTo(Ids, MaxPrior) : \A p, q \in DOMAIN log : p # q => log[p] # log[q]}

\* the application once both getPersistentKey calls have returned the
\* persisted key and the vector database is open, holding what earlier
\* sessions added to it
Init ==
  /\ keyStore = CHOOSE k \in Keys : TRUE
  /\ kRet = [c \in Callers |-> keyStore]
  /\ kRead = [c \in Callers |-> keyStore]
  /\ kpc = [c \in Callers |-> "end"]
  /\ kOut = [c \in Callers |-> "resolved"]
  /\ kNew = [c \in Callers |-> NoKey]
  /\ kWrote = [c \in Callers |-> FALSE]
  /\ kFault = [c \in Callers |-> "none"]
  /\ CipherIdle
  /\ insertLog \in PriorLogs
  /\ \E texts \in [DOMAIN insertLog -> PriorTexts] :
       vectors = {PriorDoc(insertLog[p], texts[p], keyStore) : p \in DOMAIN insertLog}
  /\ clock = 0
  /\ adds = << >>
  /\ turn = NoTurn
  /\ sr = NoSearch
  /\ turnsDone = 0
  /\ clr = "idle"
  /\ clearsDone = 0

Next == StoreNext

(***************************************************************************)
(* VectorDbService called directly: one addDocument, one search and one    *)
(* clear may be in progress at the same time.                              *)
(***************************************************************************)
\* vectorDb.addDocument(text, 'chat'), lines 428-436
AddCall(text) ==
  /\ Len(adds) < MaxAddCalls
  /\ kOut["vdb"] = "resolved"
  /\ adds' = Append(adds, addDocument(text))
  /\ clock' = clock + 1
  /\ UNCHANGED << vectors, insertLog, turn, sr, turnsDone, clr, clearsDone, keyVars, cipherVars, redactVars >>

\* vectorDb.search(query, limit), lines 455-458
SearchCall(query, limit) ==
  /\ sr.pc = "off"
  /\ turn.pc = "idle"
  /\ kOut["vdb"] = "resolved"
  /\ sr' = search(query, limit)
  /\ UNCHANGED << vectors, insertLog, clock, adds, turn, turnsDone, clr, clearsDone,
                  keyVars, cipherVars, redactVars >>

Limits == 0..MaxLimit

ApiNext ==
  \/ \E text \in PriorTexts : AddCall(text)
  \/ \E query \in PriorTexts, limit \in Limits : SearchCall(query, limit)
  \/ SearchEmbedOk
  \/ SearchEmbedFail
  \/ SearchScan
  \/ SearchScanError
  \/ \E i \in DOMAIN adds : AddEmbedOk(i)
  \/ \E i \in DOMAIN adds : AddEmbedFail(i)
  \/ \E i \in DOMAIN adds : AddEncryptOk(i)
  \/ \E i \in DOMAIN adds : AddEncryptFail(i)
  \/ \E i \in DOMAIN adds : AddTxComplete(i)
  \/ \E i \in DOMAIN adds : AddTxConstraintError(i)
  \/ \E i \in DOMAIN adds : AddTxError(i)
  \/ \E i \in DOMAIN adds : AddTxAbort(i)
  \/ ClearCall
  \/ ClearComplete
  \/ ClearError

SpecApi == Init /\ [][ApiNext]_vars

(***************************************************************************)
(* Ranking: one search over a store that earlier addDocument calls filled, *)
(* called directly with any limit or by handleSend.  One stored blob may   *)
(* have been damaged at rest.                                              *)
(***************************************************************************)
\* "a", "b", "c", "d", "h"
RankTexts == { << 97 >>, << 98 >>, << 99 >>, << 100 >>, << 104 >> }
\* "a", "d"
RankQueries == { << 97 >>, << 100 >> }

\* the ids of the stored documents, in the order they were added
StoredLogs ==
  {log \in SeqsUpTo(Ids, MaxStored) : \A p, q \in DOMAIN log : p # q => log[p] # log[q]}

\* what may have happened to a blob at rest: nothing, a character outside
\* the base64 alphabet, or an encryption under a key that is no longer the
\* persisted one
Damages == {"none", "garbled", "otherkey"}

StoredBlob(text, k, damage) ==
  CASE damage = "none" -> encryptData(text, k, Nonce(1))
    [] damage = "garbled" -> [encryptData(text, k, Nonce(1)) EXCEPT ![1] = BadSym]
    [] damage = "otherkey" ->
         encryptData(text, CHOOSE other \in Keys : other # k, Nonce(1))

\* the addDocument call that stored a document, after it resolved
CompletedAdd(text, id) ==
  [addDocument(text) EXCEPT !.pc = "done", !.emb = "ok", !.enc = "ok",
                            !.doc = [id |-> id], !.out = "resolved"]

RankInit ==
  /\ keyStore = CHOOSE k \in Keys : TRUE
  /\ kRet = [c \in Callers |-> keyStore]
  /\ kRead = [c \in Callers |-> keyStore]
  /\ kpc = [c \in Callers |-> "end"]
  /\ kOut = [c \in Callers |-> "resolved"]
  /\ kNew = [c \in Callers |-> NoKey]
  /\ kWrote = [c \in Callers |-> FALSE]
  /\ kFault = [c \in Callers |-> "none"]
  /\ CipherIdle
  /\ insertLog \in StoredLogs
  /\ \E texts \in [DOMAIN insertLog -> RankTexts], damaged \in DOMAIN insertLog \cup {0},
        damage \in Damages :
       /\ (damaged = 0) = (damage = "none")
       /\ adds = [p \in DOMAIN insertLog |-> CompletedAdd(texts[p], insertLog[p])]
       /\ vectors =
            {[id |-> insertLog[p],
              content |-> StoredBlob(texts[p], keyStore, IF p = damaged THEN damage ELSE "none"),
              vector |-> EmbeddingOf(texts[p]),
              timestamp |-> p,
              type |-> "chat"] : p \in DOMAIN insertLog}
  /\ clock = Len(insertLog)
  /\ turn = NoTurn
  /\ sr = NoSearch
  /\ turnsDone = 0
  /\ clr = "idle"
  /\ clearsDone = 0

RankNext ==
  \/ \E input \in RankQueries : HandleSend(input)
  \/ \E query \in RankQueries, limit \in Limits : SearchCall(query, limit)
  \/ SearchEmbedOk
  \/ SearchScan

SpecRank == RankInit /\ [][RankNext]_vars

(***************************************************************************)
(* The first run: no session before it stored a document; the two          *)
(* getPersistentKey calls made at load run while the vector store takes    *)
(* its first addDocument.                                                  *)
(***************************************************************************)
FirstRunNext ==
  \/ KeyNext
  \/ \E text \in PriorTexts : AddCall(text)
  \/ \E i \in DOMAIN adds : AddEmbedOk(i)
  \/ \E i \in DOMAIN adds : AddEmbedFail(i)
  \/ \E i \in DOMAIN adds : AddEncryptOk(i)
  \/ \E i \in DOMAIN adds : AddEncryptFail(i)
  \/ \E i \in DOMAIN adds : AddTxComplete(i)
  \/ \E i \in DOMAIN adds : AddTxError(i)
  \/ \E i \in DOMAIN adds : AddTxAbort(i)

SpecFirstRun == KeyInit /\ [][FirstRunNext]_vars

(***************************************************************************)
(* Redaction: redactPII applied to a text, and to its own output.  A text  *)
(* is a concatenation of pieces that carry the characters the two patterns *)
(* look at.                                                                *)
(***************************************************************************)
\* "a", "aa", "1", "@", ".", "-", " ", "+1", "(111)", "111", "1111", "111-1111",
\* "a@a.aa", "@a.aa", "1111111111", "[EMAIL_REDACTED]"
RedactPieces ==
  { << 97 >>, << 97, 97 >>, << 49 >>, << 64 >>, << 46 >>, << 45 >>, << 32 >>, << 43, 49 >>,
    << 40, 49, 49, 49, 41 >>, << 49, 49, 49 >>, << 49, 49, 49, 49 >>,
    << 49, 49, 49, 45, 49, 49, 49, 49 >>,
    << 97, 64, 97, 46, 97, 97 >>, << 64, 97, 46, 97, 97 >>,
    << 49, 49, 49, 49, 49, 49, 49, 49, 49, 49 >>,
    << 91, 69, 77, 65, 73, 76, 95, 82, 69, 68, 65, 67, 84, 69, 68, 93 >> }

RECURSIVE Concats(_, _)
Concats(S, n) ==
  IF n = 0 THEN {<< >>}
  ELSE LET shorter == Concats(S, n - 1)
       IN shorter \cup {t \o x : t \in shorter, x \in S}

RedactInputs == Concats(RedactPieces, MaxPieces)

RedactInit ==
  /\ keyStore = NoKey /\ KeyIdle /\ StoreIdle
  /\ cText = << >> /\ cKey = NoKey /\ cBlob = << >> /\ cDamaged = FALSE
  /\ cDecKey = NoKey /\ cOut = NotRun /\ cPhase = "off"
  /\ rText \in RedactInputs
  /\ rOnce = << >>
  /\ rTwice = << >>
  /\ rPhase = "input"

\* const cleanInput = redactPII(input)
RedactOnce ==
  /\ rPhase = "input"
  /\ rOnce' = redactPII(rText)
  /\ rPhase' = "once"
  /\ UNCHANGED << rText, rTwice, cipherVars, keyVars, storeVars >>

\* redactPII applied to a text that is already redacted
RedactTwice ==
  /\ rPhase = "once"
  /\ rTwice' = redactPII(rOnce)
  /\ rPhase' = "twice"
  /\ UNCHANGED << rText, rOnce, cipherVars, keyVars, storeVars >>

RedactNext == RedactOnce \/ RedactTwice

SpecRedact == RedactInit /\ [][RedactNext]_vars

Spec == Init /\ [][Next]_vars

SpecCipher == CipherInit /\ [][CipherNext]_vars

(***************************************************************************)
(* Properties of the key lifecycle (checked under SpecKey).                *)
(***************************************************************************)

\* C1: when getPersistentKey calls race while no key is persisted, every
\* caller returns the same key, the one that survives in storage.
C1_RacingCallersConverge ==
  (\A c \in Callers : kpc[c] = "end" /\ kOut[c] = "resolved")
    => (\A c \in Callers : kRet[c] = keyStore)

\* C2: a call that reads a persisted key returns exactly that key, generates
\* no key and issues no write to the key store.
C2_ExistingKeyReturned ==
  \A c \in Callers :
    (kpc[c] \notin {"idle", "opening", "reading"} /\ kRead[c] # NoKey)
      => /\ kpc[c] = "end"
         /\ kOut[c] = "resolved"
         /\ kRet[c] = kRead[c]
         /\ kNew[c] = NoKey
         /\ ~kWrote[c]

\* C2 happens: a call read the key that the other call of this session had
\* generated and persisted, and returned it.
C2_Witness ==
  \E c, d \in Callers :
    /\ c # d
    /\ kWrote[d] /\ kOut[d] = "resolved"
    /\ kRead[c] # NoKey /\ kRead[c] = kNew[d]
    /\ kOut[c] = "resolved"

\* C3: a getPersistentKey call that met a backend failure (open, read,
\* generate, write) has rejected; it is not left pending and returns no key.
C3_FailureRejects ==
  \A c \in Callers :
    (kpc[c] = "end" /\ kFault[c] # "none") => kOut[c] = "rejected"

(***************************************************************************)
(* Properties of the blob pipeline (checked under SpecCipher).             *)
(***************************************************************************)

\* C4: decryptData(encryptData(p, k), k) returns p, for every plaintext p
\* and key k.
C4_RoundTrip ==
  (cPhase = "decrypted" /\ ~cDamaged /\ cDecKey = cKey)
    => (cOut.ok /\ cOut.val = cText)

\* C5: whenever decryptData fails, it fails with the error of the failed
\* tag verification (subtle.decrypt's OperationError) and with no other kind
\* of error.
C5_OnlyDecryptionError ==
  (cPhase = "decrypted" /\ ~cOut.ok) => cOut.err = "OperationError"

(***************************************************************************)
(* Properties of the vector store (checked under Spec).                    *)
(***************************************************************************)

\* C7: every stored document holds the encryption of a text that went
\* through redactPII, so redacting its plaintext again changes nothing.
C7_StoredTextRedacted ==
  \A d \in vectors :
    LET text == decryptData(d.content, VdbKey)
    IN text.ok /\ redactPII(text.val) = text.val

\* C8: addDocument is all-or-nothing.  A call whose embedding or encryption
\* failed has rejected and none of its steps changes the store; every
\* document that enters the store comes from a call whose embedding and
\* encryption both succeeded, and carries that vector and that ciphertext.
C8_AllOrNothing ==
  [][ /\ \A i \in DOMAIN adds :
           (adds'[i].emb = "fail" \/ adds'[i].enc = "fail")
             => /\ adds'[i].out = "rejected"
                /\ adds'[i].doc = NoDoc
                /\ (adds'[i] # adds[i] => vectors' = vectors)
      /\ \A d \in vectors' \ vectors :
           \E i \in DOMAIN adds :
             /\ adds[i].pc = "tx" /\ adds'[i].out = "resolved"
             /\ adds[i].emb = "ok" /\ adds[i].enc = "ok"
             /\ d = adds[i].doc
             /\ d.vector = EmbeddingOf(adds[i].text)
             /\ decryptData(d.content, VdbKey) = Ok(adds[i].text)
    ]_vars

\* C8 happens: one call failed on its embedding, another on its encryption,
\* and the store holds only what it held before.
C8_Witness ==
  \E i, j \in DOMAIN adds :
    /\ adds[i].emb = "fail" /\ adds[i].err = "ProviderError"
    /\ adds[j].enc = "fail" /\ adds[j].err = "EncryptError"
    /\ adds[i].out = "rejected" /\ adds[j].out = "rejected"
    /\ {d.id : d \in vectors} = {insertLog[p] : p \in DOMAIN insertLog}
    /\ \A d \in vectors : d.timestamp = 0

\* C9 as stated: when the embedding provider fails, addDocument and search
\* fail with the provider's error and nothing is written.
C9_ProviderErrorPropagates ==
  /\ \A i \in DOMAIN adds :
       adds[i].emb = "fail"
         => adds[i].out = "rejected" /\ adds[i].err = "ProviderError" /\ adds[i].doc = NoDoc
  /\ sr.emb = "fail"
       => sr.out = "rejected" /\ sr.err = "ProviderError" /\ sr.results = << >>

\* C9 amended: when the embedding provider fails, addDocument and search fail
\* and nothing is written; the error is the provider's, except that
\* addDocument fails with the encryption error when encryptData had already
\* rejected.
C9_ProviderErrorUnlessEncryptFirst ==
  /\ \A i \in DOMAIN adds :
       adds[i].emb = "fail"
         => /\ adds[i].out = "rejected"
            /\ adds[i].doc = NoDoc
            /\ \/ adds[i].err = "ProviderError"
               \/ adds[i].err = "EncryptError" /\ adds[i].enc = "fail"
  /\ sr.emb = "fail"
       => sr.out = "rejected" /\ sr.err = "ProviderError" /\ sr.results = << >>

\* C9 happens: an addDocument call rejected with the provider's error while
\* its encryption had succeeded.
C9_Witness ==
  \E i \in DOMAIN adds :
    /\ adds[i].emb = "fail" /\ adds[i].enc = "ok"
    /\ adds[i].out = "rejected" /\ adds[i].err = "ProviderError"

\* C10: the full scan of search returns every stored document, in the order
\* in which the documents were inserted.
C10_ScanInInsertionOrder ==
  sr.out = "resolved"
    => [p \in DOMAIN sr.allDocs |-> sr.allDocs[p].id] = sr.logAtScan

(***************************************************************************)
(* Properties of the store under concurrent calls (checked under SpecApi). *)
(***************************************************************************)

\* C11: after clear() has completed, a full scan that runs before any further
\* add commits returns no documents, and the search returns the empty list,
\* whatever the query and the limit.
C11_ScanAfterClearIsEmpty ==
  (sr.out = "resolved" /\ sr.clrAtScan = "resolved" /\ sr.logAtScan = << >>)
    => (sr.allDocs = << >> /\ sr.results = << >>)

\* C11 happens: an addDocument call committed its document, clear removed it
\* together with what the store held before, and a search that scanned after
\* the clear returned nothing.
C11_Witness ==
  /\ \E i \in DOMAIN adds : adds[i].out = "resolved"
  /\ clr = "resolved" /\ vectors = {}
  /\ sr.out = "resolved" /\ sr.clrAtScan = "resolved" /\ sr.limit > 0
  /\ sr.results = << >>

\* C12: every change of the store is one whole add (a complete document
\* joins, nothing else changes) or one whole clear (every document goes), and
\* a full scan returns the store as it stands between two such changes: each
\* document it returns is complete, and it sees all or none of what a
\* concurrent clear removes.
C12_AddAndClearAtomic ==
  [][ /\ vectors' # vectors
           => \/ clr = "tx" /\ clr' = "resolved" /\ vectors' = {}
              \/ \E i \in DOMAIN adds :
                    /\ adds[i].pc = "tx" /\ adds'[i].out = "resolved"
                    /\ vectors' = vectors \cup {adds[i].doc}
      /\ \A d \in vectors' \ vectors :
           /\ DOMAIN d = {"id", "content", "vector", "timestamp", "type"}
           /\ LET text == decryptData(d.content, VdbKey)
              IN text.ok /\ d.vector = EmbeddingOf(text.val)
      /\ (sr.pc = "scan" /\ sr'.out = "resolved")
           => /\ {sr'.allDocs[p] : p \in DOMAIN sr'.allDocs} = vectors
              /\ Len(sr'.allDocs) = Cardinality(vectors)
              /\ vectors' = vectors
              /\ \A d \in {sr'.allDocs[p] : p \in DOMAIN sr'.allDocs} :
                   LET text == decryptData(d.content, VdbKey)
                   IN text.ok /\ d.vector = EmbeddingOf(text.val)
    ]_vars

\* C12 happens: a search scanned while an addDocument call had its
\* transaction open and a clear was in progress; the scan returned the
\* earlier documents, then the add committed and the clear removed everything.
C12_Witness ==
  /\ sr.out = "resolved" /\ sr.clrAtScan = "tx" /\ sr.allDocs # << >>
  /\ \E i \in DOMAIN adds :
       /\ adds[i].out = "resolved"
       /\ \A p \in DOMAIN sr.allDocs : sr.allDocs[p].id # adds[i].doc.id
  /\ clr = "resolved" /\ vectors = {}

\* C13: a stored document stays in the store unchanged (same id, content,
\* vector, timestamp and type) through every step of addDocument, search and
\* clear, until a clear removes all documents at once.
C13_AppendOnly ==
  [][ \/ \A d \in vectors : d \in vectors'
      \/ clr = "tx" /\ clr' = "resolved" /\ vectors' = {}
    ]_vars

\* C13 happens: a document of an earlier session is still stored as it was
\* after an addDocument call committed beside it, another add failed on its
\* id, and a search scanned the store.
C13_Witness ==
  /\ \E d \in vectors : d.timestamp = 0
  /\ \E d \in vectors : d.timestamp > 0
  /\ sr.out = "resolved" /\ sr.allDocs # << >>
  /\ clr = "rejected"

\* C14: no two stored documents have the same id, and once an add has failed
\* on an id that is already stored, the document stored under that id is the
\* one stored before.
C14_UniqueIds ==
  /\ \A d, e \in vectors : d.id = e.id => d = e
  /\ \A i \in DOMAIN adds :
       adds[i].err = "ConstraintError"
         => \A d \in vectors : d.id = adds[i].doc.id => d.timestamp = 0

\* C14 happens: addDocument drew the id of a stored document, its add was
\* refused and the stored document is still there.
C14_Witness ==
  \E i \in DOMAIN adds :
    /\ adds[i].err = "ConstraintError" /\ adds[i].out = "rejected"
    /\ \E d \in vectors : d.id = adds[i].doc.id /\ d.timestamp = 0

(***************************************************************************)
(* Properties of ranking and retrieval (checked under SpecRank, where the  *)
(* document added p-th has timestamp p and was stored by the call adds[p]).*)
(***************************************************************************)

\* C15: search returns at most `limit` entries, and no entry scores less than
\* an entry that comes after it.
C15_AtMostLimitNonIncreasing ==
  sr.out = "resolved"
    => /\ Len(sr.results) <= sr.limit
       /\ \A i, j \in DOMAIN sr.results :
            i < j => ~ScoreLess(sr.results[i].score, sr.results[j].score)

\* C15 happens: a search with limit 2 over three documents returned two
\* entries, the first scoring strictly more than the second, although the
\* document that the scan returned first scores less than both.
C15_Witness ==
  /\ sr.out = "resolved" /\ sr.limit = 2 /\ Len(sr.allDocs) = 3
  /\ Len(sr.results) = 2
  /\ ScoreLess(sr.results[2].score, sr.results[1].score)
  /\ ScoreLess(cosineSimilarity(sr.queryVector, sr.allDocs[1].vector), sr.results[2].score)

\* C16: of two returned documents with equal scores, the one that was
\* inserted earlier comes first.
C16_TiesInInsertionOrder ==
  sr.out = "resolved"
    => \A i, j \in DOMAIN sr.results :
         (/\ i < j
          /\ ~ScoreLess(sr.results[i].score, sr.results[j].score)
          /\ ~ScoreLess(sr.results[j].score, sr.results[i].score))
           => sr.results[i].timestamp < sr.results[j].timestamp

\* C17: the context handleSend keeps is exactly the entries of the top-limit
\* ranking whose score is not below the minimum score 0.65, in their order.
C17_KeepsAllNotBelowMinScore ==
  (turn.pc = "chat" /\ sr.out = "resolved")
    => turn.contextDocs =
         SelectSeq(sr.results,
                   LAMBDA r : /\ r.score.dot > 0
                              /\ MinScoreDen * MinScoreDen * r.score.dot * r.score.dot
                                   >= MinScoreNum * MinScoreNum * r.score.mm)

\* C18: search resolves with one entry per top-ranked document, each with the
\* document's timestamp and score; the entry of a document whose blob is as
\* addDocument stored it has the text that was added, and the entry of a
\* document whose blob no longer decrypts has the placeholder text.
C18_DecryptFailuresIsolated ==
  sr.pc = "done"
    => /\ sr.out = "resolved"
       /\ Len(sr.results) = Min(sr.limit, Len(sr.allDocs))
       /\ \A i, j \in DOMAIN sr.results :
            i # j => sr.results[i].timestamp # sr.results[j].timestamp
       /\ \A i \in DOMAIN sr.results :
            \E d \in vectors :
              /\ d.timestamp = sr.results[i].timestamp
              /\ sr.results[i].score = cosineSimilarity(sr.queryVector, d.vector)
              /\ IF \E iv \in Nonces :
                       d.content = encryptData(adds[d.timestamp].text, VdbKey, iv)
                   THEN sr.results[i].text = adds[d.timestamp].text
                   ELSE sr.results[i].text = EncryptedMemory

\* C18 happens: a search returned three entries, one with the placeholder
\* for a damaged blob and two with the texts that were added.
C18_Witness ==
  /\ sr.out = "resolved" /\ Len(sr.results) = 3
  /\ Cardinality({i \in DOMAIN sr.results : sr.results[i].text = EncryptedMemory}) = 1
  /\ \A i \in DOMAIN sr.results :
       sr.results[i].text # EncryptedMemory
         => sr.results[i].text = adds[sr.results[i].timestamp].text

C20_ZeroMagnitudeScoresZero ==
  sr.out = "resolved"
    => \A i \in DOMAIN sr.results :
         \A d \in vectors :
           (/\ d.timestamp = sr.results[i].timestamp
            /\ (Magnitude2(sr.queryVector) = 0 \/ Magnitude2(d.vector) = 0))
             => (sr.results[i].score.dot = 0 /\ sr.results[i].score.mm # 0)

\* C20 happens: a search for "a" returned the scores of a document with the
\* all-zero vector and of a document with the empty vector, both 0.
C20_Witness ==
  /\ sr.out = "resolved" /\ Magnitude2(sr.queryVector) # 0
  /\ \E i, j \in DOMAIN sr.results :
       \E d, e \in vectors :
         /\ d.timestamp = sr.results[i].timestamp /\ d.vector = << 0, 0, 0, 0, 0 >>
         /\ e.timestamp = sr.results[j].timestamp /\ e.vector = << >>
         /\ sr.results[i].score = [dot |-> 0, mm |-> 1]
         /\ sr.results[j].score = [dot |-> 0, mm |-> 1]

(***************************************************************************)
(* Properties of redaction (checked under SpecRedact).                     *)
(***************************************************************************)

\* C21: redactPII(redactPII(x)) = redactPII(x) for every text x.
C21_RedactIdempotent ==
  rPhase = "twice" => rTwice = rOnce

\* C21 happens: a text with an address and a phone number was redacted to
\* both tokens, and redacting the result again gave the same text.
C21_Witness ==
  /\ rPhase = "twice"
  /\ rText = << 97, 64, 97, 46, 97, 97, 32, 49, 49, 49, 49, 49, 49, 49, 49, 49, 49 >>
  /\ rOnce = EmailToken \o << 32 >> \o PhoneToken
  /\ rTwice = rOnce

\* the positions of s, from i on, inside a match of text.replace(/.../g, ...)
RECURSIVE CoveredFrom(_, _, _)
CoveredFrom(s, i, alts) ==
  IF i > Len(s) THEN {}
  ELSE LET r == MatchAny(s, i, alts, 1)
       IN IF r # 0 THEN (i .. (r - 1)) \cup CoveredFrom(s, r, alts)
          ELSE CoveredFrom(s, i + 1, alts)

\* C27 as stated: replacing emails then phones gives the same text as
\* replacing phones then emails, for every text.
C27_OrderIndependent ==
  rPhase # "input" => rOnce = RedactEmails(RedactPhones(rText))

\* C27 amended: replacing emails then phones (what redactPII does) gives the
\* same text as replacing phones then emails for every text in which no email
\* match shares a character with a phone match.
C27_OrderIndependentUnlessOverlap ==
  (/\ rPhase # "input"
   /\ CoveredFrom(rText, 1, EmailAlternatives)
        \cap CoveredFrom(rText, 1, PhoneAlternatives) = {})
    => rOnce = RedactEmails(RedactPhones(rText))

\* C27 happens: a phone number follows an address at once; both orders give
\* the two tokens.
C27_Witness ==
  /\ rPhase # "input"
  /\ rText = << 97, 64, 97, 46, 97, 97, 49, 49, 49, 49, 49, 49, 49, 49, 49, 49 >>
  /\ rOnce = EmailToken \o PhoneToken
  /\ RedactEmails(RedactPhones(rText)) = rOnce

(***************************************************************************)
(* Properties of the key lifecycle, second part (checked under SpecKey).   *)
(***************************************************************************)

\* C23: a caller that found no key persisted gets the key it generated only in
\* the step in which the write transaction commits that key: when the promise
\* resolves, the put was issued and the store holds the key returned.
C23_NewKeyReturnedAfterCommit ==
  [][\A c \in Callers :
       (kOut[c] # "resolved" /\ kOut'[c] = "resolved" /\ kRead'[c] = NoKey)
         => /\ kWrote[c]
            /\ kpc[c] = "writing"
            /\ kRet'[c] = kNew[c]
            /\ kRet'[c] # NoKey
            /\ keyStore' = kRet'[c]]_vars

\* C23 happens: a caller found no key, generated one, and holds it now that it
\* is in the store.
C23_Witness ==
  \E c \in Callers :
    /\ kOut[c] = "resolved" /\ kRead[c] = NoKey
    /\ kNew[c] # NoKey /\ kRet[c] = kNew[c] /\ keyStore = kRet[c]

(***************************************************************************)
(* Properties of a chat turn and its writes (checked under Spec).          *)
(***************************************************************************)

\* C22: no write is silently dropped: when an addDocument call started by a
\* turn has failed, handleSend has shown the failure.
C22_NoWriteSilentlyDropped ==
  \A i \in DOMAIN adds : adds[i].out = "rejected" => turn.errorShown

\* C24: every addDocument call makes at most one insert attempt, and a call
\* whose insert the backend failed has rejected with the backend's error.
C24_FailedAddRejects ==
  \A i \in DOMAIN adds :
    (adds[i].doc # NoDoc /\ adds[i].pc # "tx")
      => \/ adds[i].out = "resolved"
         \/ adds[i].out = "rejected" /\ adds[i].err \in {"StoreError", "ConstraintError"}

\* C25: a new addDocument call has both its embedding and its encryption
\* under way, neither waiting for the other, and the insert is under way or
\* over only in calls whose embedding and encryption both succeeded.
C25_ConcurrentThenJoin ==
  [][\A i \in DOMAIN adds' :
       /\ i \notin DOMAIN adds
            => adds'[i].emb = "pending" /\ adds'[i].enc = "pending" /\ adds'[i].doc = NoDoc
       /\ adds'[i].doc # NoDoc => adds'[i].emb = "ok" /\ adds'[i].enc = "ok"]_vars

\* C25 happens: of the two calls of a turn, one has its embedding back and its
\* encryption under way, the other its encryption back and its embedding
\* under way.
C25_Witness ==
  /\ Len(adds) = 2
  /\ \E i, j \in DOMAIN adds :
       /\ adds[i].emb = "ok" /\ adds[i].enc = "pending"
       /\ adds[j].enc = "ok" /\ adds[j].emb = "pending"

\* C29: after the clear() of handleClearMemory has resolved, no addDocument
\* call that was started before that clear() puts its document in the store.
C29_ClearCoversEarlierCalls ==
  [][\A i \in DOMAIN adds :
       (clr = "resolved" /\ adds[i].beforeClear /\ adds[i].out # "resolved")
         => adds'[i].out # "resolved"]_vars

\* C30: once the two writes of a turn are over, the store holds both of their
\* documents or neither; a turn whose streamChat failed started no write.
C30_BothMemoriesOrNeither ==
  /\ turn.errorShown => adds = << >>
  /\ (/\ Len(adds) = 2
      /\ \A i \in DOMAIN adds : adds[i].pc \in {"done", "aborted"}
      /\ clr # "tx")
       => ((adds[1].out = "resolved" /\ adds[1].doc.id \in StoredIds)
             <=> (adds[2].out = "resolved" /\ adds[2].doc.id \in StoredIds))

(***************************************************************************)
(* Properties of the store called directly, second part (checked under     *)
(* SpecApi).                                                               *)
(***************************************************************************)

\* C26: no step of search, whether the search goes on to resolve or to
\* reject, changes the stored documents or the persisted key.
C26_SearchReadOnly ==
  [][sr' # sr => (vectors' = vectors /\ insertLog' = insertLog /\ keyStore' = keyStore)]_vars

\* C26 happens: a search over a store that holds documents has resolved with
\* entries, and the store still holds what the search scanned.
C26_Witness ==
  /\ sr.pc = "done" /\ sr.out = "resolved"
  /\ sr.results # << >>
  /\ vectors # {}
  /\ GetAll(vectors) = sr.allDocs

(***************************************************************************)
(* Properties of the first run (checked under SpecFirstRun).               *)
(***************************************************************************)

\* C28: every stored document decrypts under the key that is persisted.
C28_StoredUnderPersistedKey ==
  \A d \in vectors : keyStore # NoKey /\ decryptData(d.content, keyStore).ok

=============================================================================
